---- MODULE Spec2Model ----
(***************************************************************************)
(* Model of the tukio workflow execution engine (tukio/workflow.py) and of *)
(* the DAG it schedules along (tukio/dag.py).                              *)
(*                                                                         *)
(* One Workflow instance runs one template on a single asyncio event loop. *)
(* Each engine entry point (run, cancel, set_next_tasks, the done          *)
(* callbacks of a task) never suspends, so each is one atomic action.      *)
(* The completion of a task and the call of its done callbacks are two     *)
(* steps: asyncio schedules the callbacks of a done future with call_soon, *)
(* in the order the futures became done.                                   *)
(*                                                                         *)
(* Spec and FairSpec are the executions of one workflow instance.          *)
(* PolicySpec is the sequence of calls of new_workflow() (the overrun      *)
(* policy handler) on the instances the earlier calls returned.            *)
(* DagSpec is the sequence of calls that build and edit one DAG, the DAG   *)
(* of a workflow template.                                                 *)
(***************************************************************************)
EXTENDS Integers, Sequences, FiniteSets, TLC

\* ------------------------------------------------------------------ bounds

\* How many times run() is called on the workflow instance.
MaxRuns == 2
\* How many times cancel() is called from outside the workflow's tasks.
MaxCancels == 1
\* How many times tasks call set_next_tasks() during one execution.
MaxSetNext == 1
\* How many times new_workflow() is called.
MaxCalls == 3

\* ------------------------------------------------------------- vocabulary

Nodes == 1..4
\* No task / None.
Null == 0
\* The topic `None`: a sink registered under it receives every topic.
NoneTopic == "None"
\* `topics=None` of a task template (listen to everything), kept apart from
\* the lists of topic names.
TopicsNone == <<NoneTopic>>

NoExc == "none"
RootExc == "WorkflowRootTaskError"
CreateExc == "task-creation-error"
UnregisterExc == "KeyError-unregister"

\* Permutations of a finite set, as sequences: the orders in which a Python
\* set may be iterated.
Perms(S) ==
    {p \in [1..Cardinality(S) -> S] : \A i, j \in 1..Cardinality(S) : p[i] = p[j] => i = j}

\* ------------------------------------------------------------- templates
\* A workflow template: the DAG (`graph`: node -> set of successors) of task
\* templates, and for each task template what its constructor does when a
\* task is created from it ("ok", "caught": raises one of UnknownTaskName,
\* TypeError, ValueError, AttributeError; "uncaught": raises another
\* exception, e.g. KeyError) and its `topics` (TopicsNone, or a list).
\* `timeout` is the set of the task templates that carry a timeout, and
\* `wtimeout` tells whether the dictionary of the workflow carries one.

Graph(nodes, edges) == [n \in nodes |-> {m \in nodes : <<n, m>> \in edges}]

\* Fan-out and join: {1: [2, 3], 2: [4], 3: [4], 4: []}. Task 2 listens to
\* everything, task 4 to the topics t1 and t2, the others to nothing.
TmplDiamond ==
    [name   |-> "diamond",
     graph  |-> Graph(1..4, {<<1, 2>>, <<1, 3>>, <<2, 4>>, <<3, 4>>}),
     ctor   |-> [n \in 1..4 |-> "ok"],
     topics |-> [n \in 1..4 |-> IF n = 2 THEN TopicsNone
                                ELSE IF n = 4 THEN <<"t1", "t2">> ELSE <<>>],
     timeout  |-> {},
     wtimeout |-> FALSE]

\* TEMPLATES['crash_test']: {1: [crash, 2], crash: [wont_run], 2: [], wont_run: []}
\* with crash = node 2, 2 = node 3, wont_run = node 4.
TmplCrash ==
    [name   |-> "crash_test",
     graph  |-> Graph(1..4, {<<1, 2>>, <<1, 3>>, <<2, 4>>}),
     ctor   |-> [n \in 1..4 |-> IF n = 2 THEN "caught" ELSE "ok"],
     topics |-> [n \in 1..4 |-> <<>>],
     timeout  |-> {},
     wtimeout |-> FALSE]

TmplCrashKey ==
    [name   |-> "crash_test_keyerror",
     graph  |-> Graph(1..4, {<<1, 2>>, <<1, 3>>, <<2, 4>>}),
     ctor   |-> [n \in 1..4 |-> IF n = 2 THEN "uncaught" ELSE "ok"],
     topics |-> [n \in 1..4 |-> <<>>],
     timeout  |-> {},
     wtimeout |-> FALSE]

\* Fan-in: {1: [2, 3, 4], 2: [4], 3: [4], 4: []}. Task 4 is started with
\* tasks 2 and 3 and is joined by both.
TmplFanIn ==
    [name   |-> "fan_in",
     graph  |-> Graph(1..4, {<<1, 2>>, <<1, 3>>, <<1, 4>>, <<2, 4>>, <<3, 4>>}),
     ctor   |-> [n \in 1..4 |-> "ok"],
     topics |-> [n \in 1..4 |-> <<>>],
     timeout  |-> {},
     wtimeout |-> FALSE]

\* TEMPLATES['task_timeout'], with a sibling (node 3) and a successor (node
\* 4) of the task that carries the timeout (node 2).
TmplTaskTimeout ==
    [name   |-> "task_timeout",
     graph  |-> Graph(1..4, {<<1, 2>>, <<1, 3>>, <<2, 4>>}),
     ctor   |-> [n \in 1..4 |-> "ok"],
     topics |-> [n \in 1..4 |-> <<>>],
     timeout  |-> {2},
     wtimeout |-> FALSE]

\* TEMPLATES['workflow_timeout']: {'timeout': 0.1, 'graph': {'1': []}}
TmplWorkflowTimeout ==
    [name   |-> "workflow_timeout",
     graph  |-> Graph(1..1, {}),
     ctor   |-> [n \in 1..1 |-> "ok"],
     topics |-> [n \in 1..1 |-> <<>>],
     timeout  |-> {},
     wtimeout |-> TRUE]

\* Two roots: accepted by the DAG (at least one root, no cycle).
TmplTwoRoots ==
    [name   |-> "two_roots",
     graph  |-> Graph(1..3, {<<1, 3>>, <<2, 3>>}),
     ctor   |-> [n \in 1..3 |-> "ok"],
     topics |-> [n \in 1..3 |-> <<>>],
     timeout  |-> {},
     wtimeout |-> FALSE]

\* The root task cannot be created.
TmplBadRoot ==
    [name   |-> "bad_root",
     graph  |-> Graph(1..2, {<<1, 2>>}),
     ctor   |-> [n \in 1..2 |-> IF n = 1 THEN "caught" ELSE "ok"],
     topics |-> [n \in 1..2 |-> <<>>],
     timeout  |-> {},
     wtimeout |-> FALSE]

TmplBadRootKey ==
    [name   |-> "bad_root_keyerror",
     graph  |-> Graph(1..2, {<<1, 2>>}),
     ctor   |-> [n \in 1..2 |-> IF n = 1 THEN "uncaught" ELSE "ok"],
     topics |-> [n \in 1..2 |-> <<>>],
     timeout  |-> {},
     wtimeout |-> FALSE]

\* A template without any task: WorkflowTemplate() before any add().
TmplEmpty ==
    [name   |-> "empty",
     graph  |-> Graph({}, {}),
     ctor   |-> [n \in {} |-> "ok"],
     topics |-> [n \in {} |-> <<>>],
     timeout  |-> {},
     wtimeout |-> FALSE]

Templates ==
    {TmplDiamond, TmplCrash, TmplCrashKey, TmplFanIn, TmplTaskTimeout,
     TmplWorkflowTimeout, TmplTwoRoots, TmplBadRoot, TmplBadRootKey, TmplEmpty}

\* The lists of template ids a task passes to set_next_tasks(): empty, a
\* repeated id, an id with an id that is no task of the template, the id of
\* a join task.
IdLists == {<<>>, <<3, 3>>, <<2, 5>>, <<4>>}

\* ------------------------------------------------------------------ state

VARIABLES
    tmpl,           \* Workflow._template
    tstate,         \* per task template: state of the task created from it
    cancelReq,      \* tasks on which task.cancel() returned True, not done yet
    tasks,          \* Workflow.tasks
    tasks_by_id,    \* Workflow._tasks_by_id
    done_tasks,     \* Workflow._done_tasks
    updated_next,   \* Workflow._updated_next_tasks: <<>> (no key) or <<ids>>
    internal_exc,   \* Workflow._internal_exc
    must_cancel,    \* Workflow._must_cancel
    wstate,         \* state of the Workflow future
    wresult,        \* result or exception held by the Workflow future
    events,         \* what was dispatched on EXEC_TOPIC, in order
    joins,          \* join events pushed by _join_task, in order
    deliveries,     \* delivery tasks _join_task scheduled, not run yet (FIFO)
    inbox,          \* per task: the join events put in its queue, in order
    doneOrder,      \* the tasks that became done, in that order (history)
    registered,     \* (task, topic) sinks registered in the broker
    cbq,            \* done tasks whose done callbacks are scheduled (FIFO)
    runs,           \* number of calls of run()
    lastRun,        \* how the last call of run() ended
    ncancel,        \* number of outside calls of cancel()
    nsetnext,       \* number of calls of set_next_tasks()
    hist,           \* what has happened so far (history)
    pool,           \* the workflow instances new_workflow() created, in order
    pcall,          \* the last call of new_workflow(): template, running, result
    ncalls,         \* number of calls of new_workflow()
    dag,            \* DAG.graph of the DAG that is being built
    dcall           \* the last call made on the DAG, and what it did

vars ==
    <<tmpl, tstate, cancelReq, tasks, tasks_by_id, done_tasks, updated_next,
      internal_exc, must_cancel, wstate, wresult, events, joins, deliveries, inbox,
      doneOrder, registered, cbq, runs, lastRun, ncancel, nsetnext, hist,
      pool, pcall, ncalls, dag, dcall>>

\* The state of the DAG that is being built.
dagvars == <<dag, dcall>>

\* The state of the overrun policy handler's callers.
polvars == <<pool, pcall, ncalls>>

\* The state of the workflow instance that runs.
wfvars ==
    <<tmpl, tstate, cancelReq, tasks, tasks_by_id, done_tasks, updated_next,
      internal_exc, must_cancel, wstate, wresult, events, joins, deliveries, inbox,
      doneOrder, registered, cbq, runs, lastRun, ncancel, nsetnext, hist>>

\* The mutable state of the workflow and of its tasks as one record, which the
\* operators below transform as the methods of Workflow do. `ret` is what the
\* last method returned.
Cur ==
    [tstate |-> tstate, cancelReq |-> cancelReq, tasks |-> tasks,
     tasks_by_id |-> tasks_by_id, done_tasks |-> done_tasks,
     internal_exc |-> internal_exc, must_cancel |-> must_cancel,
     wstate |-> wstate, wresult |-> wresult, events |-> events, joins |-> joins,
     deliveries |-> deliveries, registered |-> registered, hist |-> hist,
     ret |-> "none"]

Commit(S) ==
    /\ tstate' = S.tstate
    /\ cancelReq' = S.cancelReq
    /\ tasks' = S.tasks
    /\ tasks_by_id' = S.tasks_by_id
    /\ done_tasks' = S.done_tasks
    /\ internal_exc' = S.internal_exc
    /\ must_cancel' = S.must_cancel
    /\ wstate' = S.wstate
    /\ wresult' = S.wresult
    /\ events' = S.events
    /\ joins' = S.joins
    /\ deliveries' = S.deliveries
    /\ registered' = S.registered
    /\ hist' = S.hist

\* DAG.__init__(): `self.graph = {}`.
NewDag == [n \in {} |-> {}]

\* No call on the DAG yet.
NoDagCall ==
    [op |-> "none", u |-> Null, v |-> Null, exc |-> "none", before |-> NewDag,
     validated |-> FALSE, checked |-> NewDag, after |-> NewDag]

\* No call of new_workflow() yet.
NoCall == [tmpl |-> [uid |-> "", policy |-> ""], running |-> <<>>, result |-> "none"]

Init ==
    /\ tmpl \in Templates
    /\ pool = <<>>
    /\ pcall = NoCall
    /\ ncalls = 0
    /\ dag = NewDag
    /\ dcall = NoDagCall
    /\ tstate = [n \in Nodes |-> "none"]
    /\ cancelReq = {}
    /\ tasks = {}
    /\ tasks_by_id = [n \in Nodes |-> Null]
    /\ done_tasks = {}
    /\ updated_next = [n \in Nodes |-> <<>>]
    /\ internal_exc = NoExc
    /\ must_cancel = FALSE
    /\ wstate = "pending"
    /\ wresult = "none"
    /\ events = <<>>
    /\ joins = <<>>
    /\ deliveries = <<>>
    /\ inbox = [n \in Nodes |-> <<>>]
    /\ doneOrder = <<>>
    /\ registered = {}
    /\ cbq = <<>>
    /\ runs = 0
    /\ lastRun = "none"
    /\ ncancel = 0
    /\ nsetnext = 0
    /\ hist = {}

\* ------------------------------------------------------------ DAG queries

\* DAG.successors(): the successors of a node.
successors(g, n) == g[n]

\* DAG.predecessors()
predecessors(g, n) == {k \in DOMAIN g : n \in g[k]}

\* DAG.root_nodes(): all nodes minus all successors; raises DAGValidationError
\* when there is none (RootNodesRaises).
root_nodes(g) == DOMAIN g \ UNION {g[k] : k \in DOMAIN g}

RootNodesRaises(g) == root_nodes(g) = {}

\* ------------------------------------------------------- Workflow methods

\* Workflow._dispatch_exec_event()
DispatchExecEvent(S, etype, data) ==
    [S EXCEPT !.events = Append(@, [type |-> etype, content |-> data])]

\* Workflow._all_tasks_done()
AllTasksDone(S) == S.tasks = S.done_tasks

\* _try_mark_done() without its `not self.done()` test.
TryMarkDone_NoDoneGuard(S) ==
    IF AllTasksDone(S)
    THEN IF S.internal_exc # NoExc
         THEN DispatchExecEvent(
                  [S EXCEPT !.wstate = "exception", !.wresult = S.internal_exc],
                  "workflow-error", S.internal_exc)
         ELSE IF S.must_cancel
         THEN DispatchExecEvent([S EXCEPT !.wstate = "cancelled"],
                                "workflow-end", "cancel")
         ELSE DispatchExecEvent([S EXCEPT !.wstate = "finished", !.wresult = "tasks"],
                                "workflow-end", "none")
    ELSE S

\* Workflow._try_mark_done()
TryMarkDone(S) ==
    IF AllTasksDone(S) /\ S.wstate = "pending"
    THEN IF S.internal_exc # NoExc
         THEN DispatchExecEvent(
                  [S EXCEPT !.wstate = "exception", !.wresult = S.internal_exc],
                  "workflow-error", S.internal_exc)
         ELSE IF S.must_cancel
         THEN DispatchExecEvent([S EXCEPT !.wstate = "cancelled"],
                                "workflow-end", "cancel")
         ELSE DispatchExecEvent([S EXCEPT !.wstate = "finished", !.wresult = "tasks"],
                                "workflow-end", "none")
    ELSE S

\* The tasks for which task.cancel() returns True in _cancel_all_tasks():
\* those of tasks - _done_tasks that are not done.
Cancellable(S) == {t \in S.tasks \ S.done_tasks : S.tstate[t] = "pending"}

\* Workflow._cancel_all_tasks(); it returns Cardinality(Cancellable(S)).
CancelAllTasks(S) ==
    [S EXCEPT !.must_cancel = TRUE, !.cancelReq = @ \cup Cancellable(S)]

\* asyncio.Future.cancel() on the workflow: no effect on a done future.
FutureCancel(S) ==
    IF S.wstate = "pending" THEN [S EXCEPT !.wstate = "cancelled"] ELSE S

\* Workflow.cancel()
Cancel(S) ==
    LET cancelled == Cardinality(Cancellable(S))
        S1 == CancelAllTasks(S)
    IN  IF cancelled = 0 THEN FutureCancel(S1) ELSE S1

\* The topics _register_to_broker() and _unregister_from_broker() walk for a
\* task template: [None] when topics is None, else the list.
IterTopics(t) == tmpl.topics[t]

TopicSet(t) == {IterTopics(t)[i] : i \in 1..Len(IterTopics(t))}

\* Workflow._register_to_broker(): nothing when the template listens to
\* nothing, else one registration per topic.
RegisterToBroker(S, t) ==
    [S EXCEPT !.registered = @ \cup {<<t, topic>> : topic \in TopicSet(t)}]

\* Workflow._new_task(): ret is "task", "none" (failure recorded) or "raise"
\* (the exception is not one of those _new_task catches). The history notes
\* "rebound" when _tasks_by_id[uid] = task replaces the task of an id.
NewTask(S, t) ==
    CASE tmpl.ctor[t] = "ok" ->
            LET S1 == RegisterToBroker(S, t)
            IN  [S1 EXCEPT !.tstate[t] = "pending",
                           !.tasks = @ \cup {t},
                           !.tasks_by_id[t] = t,
                           !.hist = IF S.tasks_by_id[t] # Null
                                    THEN @ \cup {"rebound"} ELSE @,
                           !.ret = "task"]
      [] tmpl.ctor[t] = "caught" ->
            LET S1 == [S EXCEPT !.internal_exc = CreateExc,
                                !.hist = @ \cup {"create-failed"} \cup
                                    (IF S.wstate = "pending"
                                     THEN {"create-failed-running"} ELSE {})]
            IN  [CancelAllTasks(S1) EXCEPT !.ret = "none"]
      [] OTHER ->
            [S EXCEPT !.hist = @ \cup {"create-raised"} \cup
                          (IF S.wstate = "pending"
                           THEN {"create-raised-running"} ELSE {}),
                      !.ret = "raise"]

\* _join_task() scheduling the delivery ahead of the deliveries that wait.
JoinTask_Prepend(S, src, next_task) ==
    [S EXCEPT !.joins = Append(@, <<src, next_task>>),
              !.deliveries = <<(<<src, next_task>>)>> \o @]

\* Workflow._join_task(): ensure_future() makes a task of
\* next_task.data_received(event), which the loop runs after what is
\* already scheduled.
JoinTask(S, src, next_task) ==
    [S EXCEPT !.joins = Append(@, <<src, next_task>>),
              !.deliveries = Append(@, <<src, next_task>>)]

\* _get_next_task_templates() without the override of the task.
GetNextTaskTemplates_NoFilter(t, succ) == succ

\* Workflow._get_next_task_templates(): `succ` is the list successors()
\* returned; with an override, the ids of the override that are successors,
\* in the order (and as many times as) the override lists them.
GetNextTaskTemplates(t, succ) ==
    IF updated_next[t] = <<>>
    THEN succ
    ELSE LET ids == updated_next[t][1]
             IsSucc(tid) == \E i \in 1..Len(succ) : succ[i] = tid
         IN  SelectSeq(ids, IsSucc)

\* The loop of _run_next_tasks() without its lookup in _tasks_by_id: a new
\* task for every next template.
RECURSIVE StartNext_AlwaysNew(_, _, _)
StartNext_AlwaysNew(S, src, next) ==
    IF next = <<>>
    THEN [S EXCEPT !.ret = "none"]
    ELSE LET S1 == NewTask(S, Head(next))
         IN  IF S1.ret = "task"
             THEN StartNext_AlwaysNew(S1, src, Tail(next))
             ELSE S1

\* The loop of _run_next_tasks() without its `if next_task.done(): continue`:
\* a done task is joined like a running one.
RECURSIVE StartNext_JoinDone(_, _, _)
StartNext_JoinDone(S, src, next) ==
    IF next = <<>>
    THEN [S EXCEPT !.ret = "none"]
    ELSE LET n == Head(next)
             next_task == S.tasks_by_id[n]
         IN  IF next_task # Null
             THEN StartNext_JoinDone(JoinTask(S, src, next_task), src, Tail(next))
             ELSE LET S1 == NewTask(S, n)
                  IN  IF S1.ret = "task"
                      THEN StartNext_JoinDone(S1, src, Tail(next))
                      ELSE S1

\* The loop of _run_next_tasks() over the next templates.
RECURSIVE StartNext(_, _, _)
StartNext(S, src, next) ==
    IF next = <<>>
    THEN [S EXCEPT !.ret = "none"]
    ELSE LET n == Head(next)
             next_task == S.tasks_by_id[n]
         IN  IF next_task # Null
             THEN IF S.tstate[next_task] # "pending"
                  THEN StartNext(S, src, Tail(next))
                  ELSE StartNext(JoinTask(S, src, next_task), src, Tail(next))
             ELSE LET S1 == NewTask(S, n)
                  IN  IF S1.ret = "task"
                      THEN StartNext(S1, src, Tail(next))
                      ELSE S1

\* _run_next_tasks() starting the downstream tasks whatever the outcome of
\* the task.
RunNextTasks_ExpandOnError(S, t, succ) ==
    LET S1 == [S EXCEPT !.done_tasks = @ \cup {t}]
    IN  IF S1.must_cancel
        THEN TryMarkDone(S1)
        ELSE TryMarkDone(StartNext(S1, t, GetNextTaskTemplates(t, succ)))

\* _run_next_tasks() without its `if self._must_cancel` test.
RunNextTasks_IgnoreMustCancel(S, t, succ) ==
    LET S1 == [S EXCEPT !.done_tasks = @ \cup {t}]
    IN  IF S1.tstate[t] # "finished"
        THEN TryMarkDone(S1)
        ELSE TryMarkDone(StartNext(S1, t, GetNextTaskTemplates(t, succ)))

\* Workflow._run_next_tasks(task)
RunNextTasks(S, t, succ) ==
    LET S1 == [S EXCEPT !.done_tasks = @ \cup {t}]
    IN  IF S1.must_cancel
        THEN TryMarkDone(S1)
        ELSE IF S1.tstate[t] # "finished"
        THEN TryMarkDone(S1)
        ELSE TryMarkDone(StartNext(S1, t, GetNextTaskTemplates(t, succ)))

\* _unregister_from_broker() giving up at the first unregister() that fails.
UnregisterFromBroker_StopAtFailure(S, t) ==
    LET missing == {topic \in TopicSet(t) : <<t, topic>> \notin S.registered}
        S1 == [S EXCEPT !.registered =
                            IF missing # {}
                            THEN @
                            ELSE @ \ {<<t, topic>> : topic \in TopicSet(t)},
                        !.internal_exc =
                            IF missing # {} THEN UnregisterExc ELSE @,
                        !.hist = IF missing # {} THEN @ \cup {"broker-failed"} ELSE @]
    IN  IF S1.internal_exc # NoExc THEN CancelAllTasks(S1) ELSE S1

\* Workflow._unregister_from_broker(): unregister() raises KeyError for a
\* sink that is not registered.
UnregisterFromBroker(S, t) ==
    LET missing == {topic \in TopicSet(t) : <<t, topic>> \notin S.registered}
        S1 == [S EXCEPT !.registered = @ \ {<<t, topic>> : topic \in TopicSet(t)},
                        !.internal_exc =
                            IF missing # {} THEN UnregisterExc ELSE @,
                        !.hist = IF missing # {} THEN @ \cup {"broker-failed"} ELSE @]
    IN  IF S1.internal_exc # NoExc THEN CancelAllTasks(S1) ELSE S1

\* The done callbacks of a task, in the order _new_task() added them:
\* _unregister_from_broker (when the template listens), then _run_next_tasks.
DoneCallbacks(S, t, succ) ==
    IF TopicSet(t) # {}
    THEN RunNextTasks(UnregisterFromBroker(S, t), t, succ)
    ELSE RunNextTasks(S, t, succ)

\* The body of Workflow.run(); ret is "task", "none", "RuntimeError" or
\* "raise" (DAGValidationError of root_nodes(), or what _new_task let through).
RunBody(S) ==
    IF S.tasks # {}
    THEN [S EXCEPT !.ret = "RuntimeError"]
    ELSE IF RootNodesRaises(tmpl.graph)
    THEN [S EXCEPT !.ret = "raise"]
    ELSE IF Cardinality(root_nodes(tmpl.graph)) # 1
    THEN [TryMarkDone([S EXCEPT !.internal_exc = RootExc]) EXCEPT !.ret = "none"]
    ELSE LET root == CHOOSE r \in root_nodes(tmpl.graph) : TRUE
             S1 == NewTask(DispatchExecEvent(S, "workflow-begin", "data"), root)
         IN  IF S1.ret = "none"
             THEN [TryMarkDone(S1) EXCEPT !.ret = "none"]
             ELSE S1

\* What the caller of run() gets through the _current_workflow wrapper, which
\* calls the method and drops what it returns.
CurrentWorkflowWrapper(ret) ==
    IF ret \in {"task", "none"} THEN "None" ELSE ret

\* ---------------------------------------------------------------- actions

\* A call of run(data).
Run ==
    /\ runs < MaxRuns
    /\ runs' = runs + 1
    /\ \E S \in {RunBody(Cur)} :
           /\ Commit([S EXCEPT !.hist = @ \cup
                          (IF S.ret \in {"task", "none"} THEN {"run-returned"} ELSE {})])
           /\ lastRun' = CurrentWorkflowWrapper(S.ret)
    /\ UNCHANGED <<tmpl, updated_next, cbq, ncancel, nsetnext, inbox, doneOrder>>
    /\ UNCHANGED polvars
    /\ UNCHANGED dagvars

\* A call of cancel() from outside the tasks of the workflow (another
\* coroutine of the loop, the abort-running policy, a timer).
CancelOutside ==
    /\ ncancel < MaxCancels
    /\ ncancel' = ncancel + 1
    /\ \E S \in {Cancel(Cur)} :
           Commit([S EXCEPT !.hist = @ \cup {"cancel"} \cup
                       (IF wstate = "pending" /\ tasks # {} /\ internal_exc = NoExc
                        THEN {"cancel-running"} ELSE {})])
    /\ UNCHANGED <<tmpl, updated_next, cbq, runs, lastRun, nsetnext, inbox, doneOrder>>
    /\ UNCHANGED polvars
    /\ UNCHANGED dagvars

\* A running task calls Workflow.current_workflow().cancel() in its body.
CancelFromTask(t) ==
    /\ tstate[t] = "pending"
    /\ \E S \in {Cancel(Cur)} :
           Commit([S EXCEPT !.hist = @ \cup {"cancel"} \cup
                       (IF wstate = "pending" /\ internal_exc = NoExc
                        THEN {"cancel-running"} ELSE {})])
    /\ UNCHANGED <<tmpl, updated_next, cbq, runs, lastRun, ncancel, nsetnext, inbox,
                   doneOrder>>
    /\ UNCHANGED polvars
    /\ UNCHANGED dagvars

\* A running task calls set_next_tasks(ids) in its body.
SetNextTasks(t, ids) ==
    /\ nsetnext < MaxSetNext
    /\ tstate[t] = "pending"
    /\ t \in tasks
    /\ nsetnext' = nsetnext + 1
    /\ updated_next' = [updated_next EXCEPT ![t] = <<ids>>]
    /\ UNCHANGED <<tmpl, tstate, cancelReq, tasks, tasks_by_id, done_tasks,
                   internal_exc, must_cancel, wstate, wresult, events, joins,
                   deliveries, inbox, doneOrder, registered, cbq, runs, lastRun,
                   ncancel, hist>>
    /\ UNCHANGED polvars
    /\ UNCHANGED dagvars

\* How the body of a task may end: with a result or an exception; once a
\* cancel was requested, cancelled when the body lets CancelledError through,
\* and else as the body decides.
Outcomes(t) ==
    IF t \in cancelReq THEN {"cancelled", "finished", "exception"}
    ELSE {"finished", "exception"}

\* A task becomes done; asyncio schedules its done callbacks.
TaskDone(t, outcome) ==
    /\ tstate[t] = "pending"
    /\ outcome \in Outcomes(t)
    /\ tstate' = [tstate EXCEPT ![t] = outcome]
    /\ cancelReq' = cancelReq \ {t}
    /\ cbq' = Append(cbq, t)
    /\ doneOrder' = Append(doneOrder, t)
    /\ UNCHANGED <<tmpl, tasks, tasks_by_id, done_tasks, updated_next, internal_exc,
                   must_cancel, wstate, wresult, events, joins, deliveries, inbox,
                   registered, runs, lastRun, ncancel, nsetnext, hist>>
    /\ UNCHANGED polvars
    /\ UNCHANGED dagvars

\* The loop calls the done callbacks of the task that became done first.
\* `succ` is the order in which successors() lists the set of successors.
RunDoneCallbacks ==
    /\ cbq # <<>>
    /\ LET t == Head(cbq)
       IN  \E succ \in Perms(successors(tmpl.graph, t)) :
               \E S \in {DoneCallbacks(Cur, t, succ)} : Commit(S)
    /\ cbq' = Tail(cbq)
    /\ UNCHANGED <<tmpl, updated_next, runs, lastRun, ncancel, nsetnext, inbox,
                   doneOrder>>
    /\ UNCHANGED polvars
    /\ UNCHANGED dagvars

\* The sink of a running task is unregistered from the shared broker by
\* someone else than the engine.
BrokerUnregister(t, topic) ==
    /\ tstate[t] = "pending"
    /\ <<t, topic>> \in registered
    /\ registered' = registered \ {<<t, topic>>}
    /\ UNCHANGED <<tmpl, tstate, cancelReq, tasks, tasks_by_id, done_tasks,
                   updated_next, internal_exc, must_cancel, wstate, wresult, events,
                   joins, deliveries, inbox, doneOrder, cbq, runs, lastRun, ncancel,
                   nsetnext, hist>>
    /\ UNCHANGED polvars
    /\ UNCHANGED dagvars

\* The timer of a running task whose template carries a timeout expires: the
\* task is cancelled and is done in state timeout.
TaskTimeout(t) ==
    /\ t \in tmpl.timeout
    /\ tstate[t] = "pending"
    /\ tstate' = [tstate EXCEPT ![t] = "timeout"]
    /\ cancelReq' = cancelReq \ {t}
    /\ cbq' = Append(cbq, t)
    /\ doneOrder' = Append(doneOrder, t)
    /\ UNCHANGED <<tmpl, tasks, tasks_by_id, done_tasks, updated_next, internal_exc,
                   must_cancel, wstate, wresult, events, joins, deliveries, inbox,
                   registered, runs, lastRun, ncancel, nsetnext, hist>>
    /\ UNCHANGED polvars
    /\ UNCHANGED dagvars

\* The timeout of the workflow's dictionary elapses while a task of the
\* workflow runs.
\* from_dict() does not read the key and run() arms no timer: nothing is
\* called, only the history notes it.
WorkflowTimeoutElapses ==
    /\ tmpl.wtimeout
    /\ wstate = "pending"
    /\ \E t \in tasks : tstate[t] = "pending"
    /\ "timeout-elapsed" \notin hist
    /\ hist' = hist \cup {"timeout-elapsed"}
    /\ UNCHANGED <<tmpl, tstate, cancelReq, tasks, tasks_by_id, done_tasks,
                   updated_next, internal_exc, must_cancel, wstate, wresult, events,
                   joins, deliveries, inbox, doneOrder, registered, cbq, runs,
                   lastRun, ncancel, nsetnext>>
    /\ UNCHANGED polvars
    /\ UNCHANGED dagvars

\* The loop runs the delivery task that was scheduled first:
\* data_received(event) puts the event in the queue of the task.
DataReceived ==
    /\ deliveries # <<>>
    /\ LET d == Head(deliveries)
       IN  inbox' = [inbox EXCEPT ![d[2]] = Append(@, d[1])]
    /\ deliveries' = Tail(deliveries)
    /\ UNCHANGED <<tmpl, tstate, cancelReq, tasks, tasks_by_id, done_tasks,
                   updated_next, internal_exc, must_cancel, wstate, wresult, events,
                   joins, doneOrder, registered, cbq, runs, lastRun, ncancel,
                   nsetnext, hist>>
    /\ UNCHANGED polvars
    /\ UNCHANGED dagvars

Next ==
    \/ Run
    \/ CancelOutside
    \/ \E t \in Nodes : CancelFromTask(t)
    \/ \E t \in Nodes, ids \in IdLists : SetNextTasks(t, ids)
    \/ \E t \in Nodes, outcome \in {"finished", "exception", "cancelled"} :
           TaskDone(t, outcome)
    \/ RunDoneCallbacks
    \/ \E t \in Nodes : TaskTimeout(t)
    \/ WorkflowTimeoutElapses
    \/ DataReceived
    \/ \E t \in Nodes, topic \in {NoneTopic, "t1", "t2"} : BrokerUnregister(t, topic)

Spec == Init /\ [][Next]_vars

\* The event loop runs every scheduled callback, and the body of a running
\* task ends: as long as some task is running, one of them becomes done.
FairSpec ==
    /\ Spec
    /\ WF_vars(RunDoneCallbacks)
    /\ WF_vars(\E t \in Nodes, o \in {"finished", "exception", "cancelled"} : TaskDone(t, o))

\* ---------------------------------------------------------- overrun policy
\* new_workflow(wf_tmpl, running): the callers keep the instances it returned
\* (`pool`) and pass the ones that are not done as `running`, a list of
\* positions in the pool. Here a template is its uid and its overrun policy;
\* every instance runs the DAG of `tmpl`.

Policies == {"skip", "start-new", "skip-until-unlock", "abort-running"}

PolicyTemplates ==
    {[uid |-> "A", policy |-> p] : p \in Policies}
        \cup {[uid |-> "B", policy |-> "start-new"]}

\* Workflow.__init__(): a pending workflow without tasks, locked when the
\* policy of its template is skip-until-unlock. `cancel_calls` counts the
\* calls of cancel() on the instance (history).
WorkflowInit(T) ==
    [tstate |-> [n \in Nodes |-> "none"], cancelReq |-> {}, tasks |-> {},
     tasks_by_id |-> [n \in Nodes |-> Null], done_tasks |-> {},
     internal_exc |-> NoExc, must_cancel |-> FALSE, wstate |-> "pending",
     wresult |-> "none", events |-> <<>>, joins |-> <<>>, deliveries |-> <<>>,
     registered |-> {}, hist |-> {}, ret |-> "none",
     uid |-> T.uid, locked |-> (T.policy = "skip-until-unlock"), cancel_calls |-> 0]

\* OverrunPolicyHandler._check_wflow(): FALSE when it raises ValueError.
CheckWflow(T, w) == w.uid = T.uid

\* OverrunPolicyHandler._new_wflow(): the result of a handler that returns a
\* new instance.
NewWflow(T, pl) == [pool |-> Append(pl, WorkflowInit(T)), result |-> "new"]

\* OverrunPolicyHandler._skip()
Skip(T, pl, running) ==
    IF running # <<>>
    THEN IF \E k \in 1..Len(running) : ~CheckWflow(T, pl[running[k]])
         THEN [pool |-> pl, result |-> "ValueError"]
         ELSE [pool |-> pl, result |-> "None"]
    ELSE NewWflow(T, pl)

\* OverrunPolicyHandler._start_new(): `running` is not read.
StartNew(T, pl, running) == NewWflow(T, pl)

\* _skip_until_unlock() looking at the lock of the first running instance only.
SkipUntilUnlock_FirstOnly(T, pl, running) ==
    IF running = <<>>
    THEN NewWflow(T, pl)
    ELSE IF ~CheckWflow(T, pl[Head(running)])
    THEN [pool |-> pl, result |-> "ValueError"]
    ELSE IF pl[Head(running)].locked
    THEN [pool |-> pl, result |-> "None"]
    ELSE NewWflow(T, pl)

\* OverrunPolicyHandler._skip_until_unlock(): the for loop with its break
\* and its else clause; an empty list ends in _new_wflow() as well.
RECURSIVE SkipUntilUnlock(_, _, _)
SkipUntilUnlock(T, pl, running) ==
    IF running = <<>>
    THEN NewWflow(T, pl)
    ELSE IF ~CheckWflow(T, pl[Head(running)])
    THEN [pool |-> pl, result |-> "ValueError"]
    ELSE IF pl[Head(running)].locked
    THEN [pool |-> pl, result |-> "None"]
    ELSE SkipUntilUnlock(T, pl, Tail(running))

\* _abort_running() cancelling the first running instance only.
AbortRunning_FirstOnly(T, pl, running) ==
    IF running = <<>>
    THEN NewWflow(T, pl)
    ELSE IF \E k \in 1..Len(running) : ~CheckWflow(T, pl[running[k]])
    THEN [pool |-> pl, result |-> "ValueError"]
    ELSE NewWflow(T, [pl EXCEPT ![Head(running)] =
                         [Cancel(@) EXCEPT !.cancel_calls = @ + 1]])

\* OverrunPolicyHandler._abort_running(): each instance is checked, then
\* cancelled, before the next one is looked at.
RECURSIVE AbortRunning(_, _, _)
AbortRunning(T, pl, running) ==
    IF running = <<>>
    THEN NewWflow(T, pl)
    ELSE IF ~CheckWflow(T, pl[Head(running)])
    THEN [pool |-> pl, result |-> "ValueError"]
    ELSE AbortRunning(T,
                      [pl EXCEPT ![Head(running)] =
                          [Cancel(@) EXCEPT !.cancel_calls = @ + 1]],
                      Tail(running))

\* OverrunPolicyHandler.new_workflow(): the method named after the policy.
NewWorkflow(T, pl, running) ==
    CASE T.policy = "skip" -> Skip(T, pl, running)
      [] T.policy = "start-new" -> StartNew(T, pl, running)
      [] T.policy = "skip-until-unlock" -> SkipUntilUnlock(T, pl, running)
      [] T.policy = "abort-running" -> AbortRunning(T, pl, running)

\* The positions of the instances of the pool that are not done.
RunningOf(pl) ==
    SelectSeq([i \in 1..Len(pl) |-> i], LAMBDA i : pl[i].wstate = "pending")

\* Workflow._unlock(): releases the lock if it is held.
Unlock(w) == IF w.locked THEN [w EXCEPT !.locked = FALSE] ELSE w

\* A call of new_workflow(T, running) with the instances that are not done.
NewWorkflowCall(T) ==
    /\ ncalls < MaxCalls
    /\ ncalls' = ncalls + 1
    /\ \E R \in {NewWorkflow(T, pool, RunningOf(pool))} :
           /\ pool' = R.pool
           /\ pcall' = [tmpl |-> T, running |-> RunningOf(pool), result |-> R.result]
    /\ UNCHANGED wfvars
    /\ UNCHANGED dagvars

\* run(data) is called on an instance new_workflow() returned.
StartInstance(i) ==
    /\ i \in 1..Len(pool)
    /\ pool[i].tasks = {}
    /\ pool[i].wstate = "pending"
    /\ pool' = [pool EXCEPT ![i] = RunBody(@)]
    /\ UNCHANGED <<pcall, ncalls>>
    /\ UNCHANGED wfvars
    /\ UNCHANGED dagvars

\* The task given to unlock_when_task_done() is done: its done callback
\* _unlock runs.
UnlockInstance(i) ==
    /\ i \in 1..Len(pool)
    /\ pool[i].tasks # {}
    /\ pool[i].locked
    /\ pool' = [pool EXCEPT ![i] = Unlock(@)]
    /\ UNCHANGED <<pcall, ncalls>>
    /\ UNCHANGED wfvars
    /\ UNCHANGED dagvars

PolicyInit ==
    /\ Init
    /\ tmpl = TmplDiamond

PolicyNext ==
    \/ \E T \in PolicyTemplates : NewWorkflowCall(T)
    \/ \E i \in 1..MaxCalls : StartInstance(i)
    \/ \E i \in 1..MaxCalls : UnlockInstance(i)

PolicySpec == PolicyInit /\ [][PolicyNext]_vars

\* -------------------------------------------------------------------- DAG
\* The DAG of tukio/dag.py, an adjacency mapping node -> set of successors,
\* and the calls that build it. Each operator takes the graph and returns
\* the graph the call leaves and the exception it raised ("none": returned).

\* The node ids the calls are made with.
DagNodes == 1..3

\* set.pop() and the iteration of a set: the element of S that comes first
\* in `ord`, one of the orders a Python set may be walked in.
First(S, ord) ==
    ord[CHOOSE i \in 1..Len(ord) : ord[i] \in S /\ \A j \in 1..(i - 1) : ord[j] \notin S]

\* DAG.add_node()
add_node(g, n) ==
    IF n \in DOMAIN g
    THEN [graph |-> g, exc |-> "ValueError"]
    ELSE [graph |-> [k \in DOMAIN g \cup {n} |-> IF k = n THEN {} ELSE g[k]],
          exc |-> "none"]

\* delete_node() leaving the edges that reference the node.
delete_node_KeepEdges(g, n) ==
    IF n \notin DOMAIN g
    THEN [graph |-> g, exc |-> "KeyError"]
    ELSE [graph |-> [k \in DOMAIN g \ {n} |-> g[k]], exc |-> "none"]

\* DAG.delete_node(): the node and every edge that references it.
delete_node(g, n) ==
    IF n \notin DOMAIN g
    THEN [graph |-> g, exc |-> "KeyError"]
    ELSE [graph |-> [k \in DOMAIN g \ {n} |-> g[k] \ {n}], exc |-> "none"]

\* `graph = graph or self.graph`: an empty dict is false, so a working copy
\* without any key is replaced with the graph of the DAG itself.
GraphOr(graph, self) == IF DOMAIN graph = {} THEN self ELSE graph

\* DAG.delete_edge() on a given graph.
delete_edge(g, u, v) ==
    IF u \notin DOMAIN g \/ v \notin g[u]
    THEN [graph |-> g, exc |-> "KeyError"]
    ELSE [graph |-> [g EXCEPT ![u] = @ \ {v}], exc |-> "none"]

\* delete_edge(root, node, graph) as _toposort() calls it. T holds the graph
\* of the DAG (`self`) and the working copy (`work`).
delete_edge_in(T, u, v) ==
    IF DOMAIN T.work = {}
    THEN [T EXCEPT !.self = delete_edge(@, u, v).graph]
    ELSE [T EXCEPT !.work = delete_edge(@, u, v).graph]

\* DAG.edges()
edges(g) == {e \in (DOMAIN g) \X DagNodes : e[2] \in g[e[1]]}

\* The inner loop of _toposort(): every outgoing edge of `root` is deleted
\* from the working copy, and a successor left without predecessor joins the
\* root set.
RECURSIVE WalkSuccessors(_, _, _, _, _)
WalkSuccessors(T, root, todo, roots, ord) ==
    IF todo = {}
    THEN [T |-> T, roots |-> roots]
    ELSE LET node == First(todo, ord)
             T1 == delete_edge_in(T, root, node)
         IN WalkSuccessors(T1, root, todo \ {node},
                           IF predecessors(GraphOr(T1.work, T1.self), node) = {}
                           THEN roots \cup {node}
                           ELSE roots,
                           ord)

\* The outer loop of _toposort(): Kahn's algorithm.
RECURSIVE Kahn(_, _, _)
Kahn(T, roots, ord) ==
    IF roots = {}
    THEN T
    ELSE LET root == First(roots, ord)
             W == WalkSuccessors(T, root, T.work[root], roots \ {root}, ord)
         IN Kahn(W.T, W.roots, ord)

\* DAG._toposort(): the working copy is a deepcopy of self.graph; the DAG is
\* not acyclic when an edge is left in it. Called with a root in the graph.
toposort(self, ord) ==
    LET T == Kahn([self |-> self, work |-> self], root_nodes(self), ord)
    IN [graph |-> T.self,
        exc |-> IF edges(GraphOr(T.work, T.self)) # {}
                THEN "DAGValidationError" ELSE "none"]

\* validate() without the search for a cycle.
validate_RootOnly(self, ord) ==
    [graph |-> self,
     exc |-> IF RootNodesRaises(self) THEN "DAGValidationError" ELSE "none"]

\* DAG.validate(): root_nodes() raises if there is no root, _toposort() if
\* there is a cycle.
validate(self, ord) ==
    IF RootNodesRaises(self)
    THEN [graph |-> self, exc |-> "DAGValidationError"]
    ELSE toposort(self, ord)

\* What a call that did not validate reports about validation.
NotValidated == [validated |-> FALSE, checked |-> NewDag, after |-> NewDag]

\* add_edge() without the rollback.
add_edge_NoRollback(g, u, v, ord) ==
    IF u \notin DOMAIN g \/ v \notin DOMAIN g
    THEN [graph |-> g, exc |-> "KeyError", val |-> NotValidated]
    ELSE LET g1 == [g EXCEPT ![u] = @ \cup {v}]
             V == validate(g1, ord)
         IN [graph |-> V.graph, exc |-> V.exc,
             val |-> [validated |-> TRUE, checked |-> g1, after |-> V.graph]]

\* DAG.add_edge(): the edge is added, the graph validated and, if validation
\* fails, the successor removed from the predecessor's set. `val` is the
\* graph validate() was given and the graph it left.
add_edge(g, u, v, ord) ==
    IF u \notin DOMAIN g \/ v \notin DOMAIN g
    THEN [graph |-> g, exc |-> "KeyError", val |-> NotValidated]
    ELSE LET g1 == [g EXCEPT ![u] = @ \cup {v}]
             V == validate(g1, ord)
         IN [graph |-> IF V.exc = "none"
                       THEN V.graph
                       ELSE [V.graph EXCEPT ![u] = @ \ {v}],
             exc |-> V.exc,
             val |-> [validated |-> TRUE, checked |-> g1, after |-> V.graph]]

\* The record of a call on the DAG.
DagCall(op, u, v, R, val) ==
    /\ dag' = R.graph
    /\ dcall' = [op |-> op, u |-> u, v |-> v, exc |-> R.exc, before |-> dag,
                 validated |-> val.validated, checked |-> val.checked,
                 after |-> val.after]
    /\ UNCHANGED <<wfvars, polvars>>

AddNode(n) == DagCall("add_node", n, Null, add_node(dag, n), NotValidated)

DeleteNode(n) == DagCall("delete_node", n, Null, delete_node(dag, n), NotValidated)

AddEdge(u, v) ==
    \E ord \in Perms(DagNodes) :
        \E R \in {add_edge(dag, u, v, ord)} : DagCall("add_edge", u, v, R, R.val)

DeleteEdge(u, v) == DagCall("delete_edge", u, v, delete_edge(dag, u, v), NotValidated)

\* is_valid(): validate(), with DAGValidationError turned into False.
IsValid ==
    \E ord \in Perms(DagNodes) :
        \E V \in {validate(dag, ord)} :
            DagCall("is_valid", Null, Null, V,
                    [validated |-> TRUE, checked |-> dag, after |-> V.graph])

\* The order in which the ids of a template's dictionary are written, hence
\* walked by from_dict().
IdOrder == <<1, 2, 3>>

\* The dictionaries from_dict() is given: the ids of the `tasks` list and
\* the `graph` mapping, id -> list of ids.
Descriptions ==
    {[tasks |-> ts, graph |-> gr] :
        ts \in SUBSET DagNodes,
        gr \in UNION {[K -> SUBSET DagNodes] : K \in SUBSET DagNodes}}

\* The inner loop of from_dict(): link `up` to each id of its list.
RECURSIVE LinkDowns(_, _, _, _, _)
LinkDowns(g, task_ids, up, downs, ord) ==
    IF downs = {}
    THEN [graph |-> g, exc |-> "none"]
    ELSE LET down == First(downs, IdOrder)
         IN IF down \notin task_ids
            THEN [graph |-> g, exc |-> "TemplateGraphError"]
            ELSE LET R == add_edge(g, up, down, ord)
                 IN IF R.exc # "none"
                    THEN [graph |-> R.graph, exc |-> R.exc]
                    ELSE LinkDowns(R.graph, task_ids, up, downs \ {down}, ord)

\* The outer loop of from_dict(): the items of the `graph` mapping.
RECURSIVE LinkAll(_, _, _, _, _)
LinkAll(g, task_ids, graph, keys, ord) ==
    IF keys = {}
    THEN [graph |-> g, exc |-> "none"]
    ELSE LET up == First(keys, IdOrder)
         IN IF up \notin task_ids
            THEN [graph |-> g, exc |-> "TemplateGraphError"]
            ELSE LET R == LinkDowns(g, task_ids, up, graph[up], ord)
                 IN IF R.exc # "none"
                    THEN R
                    ELSE LinkAll(R.graph, task_ids, graph, keys \ {up}, ord)

\* WorkflowTemplate.from_dict(): every task is added to the DAG of the new
\* template, then every link of the graph.
from_dict(desc, ord) ==
    LinkAll([n \in desc.tasks |-> {}], desc.tasks, desc.graph,
            DOMAIN desc.graph, ord)

\* The template is built from a dictionary, before any other call. When
\* from_dict() raises there is no template, and the DAG stays the new one.
FromDict(desc) ==
    /\ dcall.op = "none"
    /\ \E ord \in Perms(DagNodes) :
           \E R \in {from_dict(desc, ord)} :
               DagCall("from_dict", Null, Null,
                       [graph |-> IF R.exc = "none" THEN R.graph ELSE dag,
                        exc |-> R.exc],
                       NotValidated)

DagInit ==
    /\ Init
    /\ tmpl = TmplDiamond

DagNext ==
    \/ \E desc \in Descriptions : FromDict(desc)
    \/ \E n \in DagNodes : AddNode(n)
    \/ \E n \in DagNodes : DeleteNode(n)
    \/ \E u, v \in DagNodes : AddEdge(u, v)
    \/ \E u, v \in DagNodes : DeleteEdge(u, v)
    \/ IsValid

DagSpec == DagInit /\ [][DagNext]_vars

\* ----------------------------------------------------------------- claims

Terminal == wstate # "pending"

\* C1: after run() was called on a workflow whose template has a single
\* root, the workflow eventually reaches a terminal state, when every task
\* body ends and the loop runs every scheduled done callback (FairSpec).
C1_RunEventuallyTerminal ==
    (runs >= 1 /\ Cardinality(root_nodes(tmpl.graph)) = 1) ~> Terminal

\* What does hold under FairSpec: a call of run() that returned (it started
\* the root task, or recorded the failure to start) is followed by a terminal
\* state; the calls of run() that raise are the ones that are not.
ReturnedRunEventuallyTerminal == ("run-returned" \in hist) ~> Terminal

NbEvents(types) == Cardinality({i \in 1..Len(events) : events[i].type \in types})

EndTypes == {"workflow-end", "workflow-error"}

HasEvent(etype, data) ==
    \E i \in 1..Len(events) : events[i] = [type |-> etype, content |-> data]

TaskIsDone(t) == tstate[t] \in {"finished", "exception", "cancelled", "timeout"}

\* The step runs the done callbacks of task t.
CallbacksOf(t) == cbq # <<>> /\ Head(cbq) = t /\ cbq' = Tail(cbq)

\* C2: whenever a workflow with started tasks becomes terminal, by any step
\* (cancel() included), every started task is done and its _run_next_tasks
\* callback has run: tasks == done_tasks.
C2_TerminalOnlyWhenAllHandled ==
    [][(wstate = "pending" /\ tasks # {} /\ wstate' # "pending")
        => (tasks' = done_tasks' /\ \A t \in tasks' : TaskIsDone(t)')]_vars

\* C3: when a workflow with started tasks becomes terminal it has dispatched
\* exactly one workflow-end or workflow-error event, and it dispatches one
\* only when every started task is done and handled.
C3_ExactlyOneEndEvent ==
    [][/\ (wstate = "pending" /\ tasks # {} /\ wstate' # "pending")
           => NbEvents(EndTypes)' = 1
       /\ (NbEvents(EndTypes)' # NbEvents(EndTypes))
           => (tasks' = done_tasks' /\ \A t \in tasks' : TaskIsDone(t)')]_vars

\* No task creation failed, no unregistration failed, cancel() was not called.
NoOtherFailure ==
    hist \cap {"create-failed", "create-raised", "broker-failed", "cancel"} = {}

\* C4: the done callbacks of a task whose body raised start no task, push no
\* join event, cancel no task and set neither _internal_exc nor _must_cancel
\* (unless its unregistration fails); the finished tasks of the other
\* branches have their successors started; and when no task creation or
\* unregistration failed and cancel() was not called, a terminal workflow
\* with such a task is finished.
C4_FailedTaskIsolated ==
    /\ [][\A t \in Nodes :
            (/\ CallbacksOf(t)
             /\ tstate[t] = "exception"
             /\ \A topic \in TopicSet(t) : <<t, topic>> \in registered)
            => /\ tasks' = tasks
               /\ tstate' = tstate
               /\ joins' = joins
               /\ cancelReq' = cancelReq
               /\ internal_exc' = internal_exc
               /\ must_cancel' = must_cancel
               /\ done_tasks' = done_tasks \cup {t}]_vars
    /\ []((NoOtherFailure /\ \E t \in tasks : tstate[t] = "exception")
            => /\ wstate \in {"pending", "finished"}
               /\ internal_exc = NoExc /\ ~must_cancel
               /\ \A u \in done_tasks :
                      (tstate[u] = "finished" /\ updated_next[u] = <<>>)
                      => successors(tmpl.graph, u) \subseteq tasks)

\* C4 witness: in the diamond the body of task 2 raised and its callbacks
\* ran, task 4 was started by the other branch, the workflow is finished.
C4_Witness ==
    /\ tmpl = TmplDiamond
    /\ tstate[2] = "exception"
    /\ 2 \in done_tasks
    /\ 4 \in tasks
    /\ NoOtherFailure
    /\ wstate = "finished"

\* C5: when the creation of a task fails (the constructor raises, whatever
\* the exception) while the workflow is running, the failure is recorded in
\* _internal_exc, must-cancel is set, and the terminal state of the workflow
\* is exception, with a workflow-error event.
C5_CreationFailureEndsInException ==
    (hist \cap {"create-failed-running", "create-raised-running"} # {})
    => /\ internal_exc # NoExc
       /\ must_cancel
       /\ Terminal => (wstate = "exception" /\ NbEvents({"workflow-error"}) = 1)

\* C6: in the crash_test template, when the constructor of task crash (node
\* 2) raises, its sibling (node 3) is started all the same, crash and
\* wont_run (node 4) are absent from tasks_by_id, and the terminal state of
\* the workflow is finished.
C6_SiblingsSurviveCreationFailure ==
    (/\ tmpl.name \in {"crash_test", "crash_test_keyerror"}
     /\ hist \cap {"create-failed", "create-raised"} # {}
     /\ hist \cap {"broker-failed", "cancel"} = {}
     /\ Terminal)
    => /\ wstate = "finished"
       /\ 3 \in tasks
       /\ tasks_by_id[2] = Null
       /\ tasks_by_id[4] = Null

\* C7: after cancel() was called on a running workflow without internal
\* exception, once every started task is done and handled the workflow is
\* cancelled and has dispatched workflow-end with {cancel: true}.
C7_CancelEndsCancelled ==
    (/\ "cancel-running" \in hist
     /\ internal_exc = NoExc
     /\ tasks = done_tasks)
    => (wstate = "cancelled" /\ HasEvent("workflow-end", "cancel"))

\* C8: once must-cancel is set on a running workflow, no step starts a task
\* or pushes a join event.
C8_NoStartAfterMustCancel ==
    [][(must_cancel /\ wstate = "pending") => (tasks' = tasks /\ joins' = joins)]_vars

\* C8 witness: in the diamond, task 1 ended with a result after must-cancel
\* was set, its callbacks ran, and none of its successors was started.
C8_Witness ==
    /\ tmpl = TmplDiamond
    /\ must_cancel
    /\ tstate[1] = "finished"
    /\ 1 \in done_tasks
    /\ tasks = {1}

\* The result of the workflow future: set_result(self.tasks) stores the set
\* object itself.
WorkflowResult == IF wresult = "tasks" THEN <<"tasks", tasks>> ELSE <<wresult, {}>>

\* C9: once the workflow is terminal, no step changes its state, its result
\* or exception, or dispatches another workflow-end / workflow-error.
C9_TerminalOnce ==
    [][Terminal => /\ wstate' = wstate
                   /\ WorkflowResult' = WorkflowResult
                   /\ NbEvents(EndTypes)' = NbEvents(EndTypes)]_vars

\* C9 witness: the workflow became terminal through cancel() while
\* _internal_exc was set and a done task awaited its callbacks; the callbacks
\* ran afterwards (_try_mark_done with all tasks done): still cancelled.
C9_Witness ==
    /\ wstate = "cancelled"
    /\ tasks # {}
    /\ tasks = done_tasks
    /\ internal_exc # NoExc
    /\ cbq = <<>>

\* C10: a call of run() after a first call that returned fails with
\* RuntimeError, starts no task and dispatches no event.
C10_SecondRunRejected ==
    [][("run-returned" \in hist /\ runs' = runs + 1)
        => (lastRun' = "RuntimeError" /\ tasks' = tasks /\ events' = events)]_vars

\* C11: a call of run() that starts the root task returns the task, and a
\* call that returns without raising returns None exactly when it started no
\* task (no single root, or the root task could not be created).
C11_RunReturnsRootTask ==
    [][(runs' = runs + 1 /\ lastRun' \notin {"RuntimeError", "raise"})
        => /\ (tasks' # tasks) => lastRun' = "task"
           /\ (lastRun' = "None") <=> (tasks' = tasks)]_vars

\* C12: in every reachable state tasks_by_id maps the template id of each
\* started task to that task and tasks is the set of the values of
\* tasks_by_id; no template id is ever bound to a second task, the binding
\* of an id never changes and a done task never runs again, also when
\* several predecessors of its template complete.
C12_TasksById ==
    /\ [](/\ \A n \in Nodes : tstate[n] # "none" => (n \in tasks /\ tasks_by_id[n] = n)
          /\ tasks = {tasks_by_id[n] : n \in Nodes} \ {Null}
          /\ "rebound" \notin hist)
    /\ [][\A n \in Nodes :
            /\ tasks_by_id[n] # Null => tasks_by_id'[n] = tasks_by_id[n]
            /\ TaskIsDone(n) => tstate'[n] = tstate[n]]_vars

\* C12 witness: in the diamond both predecessors of task 4 ended with a
\* result and their callbacks ran; the second one joined the running task 4.
C12_Witness ==
    /\ tmpl = TmplDiamond
    /\ tstate[2] = "finished" /\ tstate[3] = "finished"
    /\ {2, 3} \subseteq done_tasks
    /\ tasks_by_id[4] = 4
    /\ \E i \in 1..Len(joins) : joins[i][2] = 4

\* The tasks started and the tasks that were pushed a join event by the step.
StartedNow == tasks' \ tasks

JoinedNow == {joins'[i][2] : i \in (Len(joins) + 1)..Len(joins')}

IdSet(ids) == {ids[i] : i \in 1..Len(ids)}

\* The step runs the done callbacks of task t, which ended with a result,
\* in a workflow that is not cancelling, whose unregistration does not fail
\* and whose successors can all be created.
NormalCallbacksOf(t) ==
    /\ CallbacksOf(t)
    /\ tstate[t] = "finished"
    /\ ~must_cancel
    /\ \A topic \in TopicSet(t) : <<t, topic>> \in registered
    /\ \A n \in successors(tmpl.graph, t) : tmpl.ctor[n] = "ok"

\* A call of set_next_tasks() changes the override of one task and nothing
\* of the template, of the tasks or of the overrides of the other tasks; the
\* callbacks of a task without override handle all its successors.
FilterIsLocal ==
    /\ \A u \in Nodes :
           updated_next'[u] # updated_next[u]
           => /\ tmpl' = tmpl /\ tasks' = tasks /\ joins' = joins
              /\ \A v \in Nodes \ {u} : updated_next'[v] = updated_next[v]
    /\ \A u \in Nodes :
           (NormalCallbacksOf(u) /\ updated_next[u] = <<>>)
           => StartedNow \cup JoinedNow =
                  {n \in successors(tmpl.graph, u) : ~TaskIsDone(n)}

DoneRank(t) == CHOOSE i \in 1..Len(doneOrder) : doneOrder[i] = t

C15_BeginOnceBeforeTasks ==
    /\ tasks # {} => (events # <<>> /\ events[1].type = "workflow-begin")
    /\ NbEvents({"workflow-begin"}) <= 1

\* C16: when the timer of a task expires only that task changes: must-cancel
\* is not set, no other task is cancelled and the workflow stays as it is;
\* the done callbacks of the timed-out task start no task, push no join
\* event and cancel nothing; and when no task creation or unregistration
\* failed and cancel() was not called, the terminal state of a workflow with
\* a timed-out task is finished.
C16_TaskTimeoutIsolated ==
    /\ [][\A t \in Nodes :
            /\ (tstate[t] = "pending" /\ tstate'[t] = "timeout")
               => /\ must_cancel' = must_cancel
                  /\ cancelReq' = cancelReq \ {t}
                  /\ \A u \in Nodes \ {t} : tstate'[u] = tstate[u]
                  /\ tasks' = tasks
                  /\ wstate' = wstate
            /\ (/\ CallbacksOf(t)
                /\ tstate[t] = "timeout"
                /\ \A topic \in TopicSet(t) : <<t, topic>> \in registered)
               => /\ tasks' = tasks
                  /\ tstate' = tstate
                  /\ joins' = joins
                  /\ cancelReq' = cancelReq
                  /\ internal_exc' = internal_exc
                  /\ must_cancel' = must_cancel
                  /\ done_tasks' = done_tasks \cup {t}]_vars
    /\ []((NoOtherFailure /\ Terminal /\ \E t \in tasks : tstate[t] = "timeout")
            => (wstate = "finished" /\ ~must_cancel))

\* C16 witness: task 2 timed out, its sibling 3 ended with a result, its
\* successor 4 was never started, and the workflow is finished.
C16_Witness ==
    /\ tmpl = TmplTaskTimeout
    /\ tstate[2] = "timeout"
    /\ tstate[3] = "finished"
    /\ tasks = {1, 2, 3}
    /\ ~must_cancel
    /\ wstate = "finished"

\* C17: when the timeout of the workflow elapsed before the workflow was
\* done (and nobody else called cancel()), the terminal state of the workflow
\* is timeout, must-cancel was set, and no task is in state timeout (the
\* running ones end cancelled).
C17_WorkflowTimeout ==
    ("timeout-elapsed" \in hist /\ "cancel" \notin hist /\ Terminal)
    => /\ wstate = "timeout"
       /\ must_cancel
       /\ \A t \in tasks : tstate[t] # "timeout"

\* The step is a call of new_workflow() for a template of the given policy.
CallOf(policy) == ncalls' = ncalls + 1 /\ pcall'.tmpl.policy = policy

\* The instances passed as `running` to the call the step makes.
RunningSet == {pcall'.running[k] : k \in 1..Len(pcall'.running)}

\* The step returned a new instance: one more instance in the pool.
ReturnsNew == pcall'.result = "new" /\ Len(pool') = Len(pool) + 1

\* C18: a call of new_workflow() under skip-until-unlock that returns
\* returns None if and only if a running instance holds its lock, and a new
\* instance otherwise; it raises only for a running instance of another
\* template; and the instance it creates is locked.
C18_SkipUntilUnlock ==
    [][CallOf("skip-until-unlock")
        => /\ pcall'.result \in {"None", "new", "ValueError"}
           /\ pcall'.result # "ValueError"
              => /\ (pcall'.result = "None") <=> (\E i \in RunningSet : pool[i].locked)
                 /\ (pcall'.result # "None") => ReturnsNew
           /\ pcall'.result = "ValueError"
              => \E i \in RunningSet : pool[i].uid # pcall'.tmpl.uid
           /\ pcall'.result = "new" => pool'[Len(pool')].locked
           /\ pcall'.result # "new" => pool' = pool]_vars

\* C18 witness: a call under skip-until-unlock returned None with two
\* running instances of which only the second holds its lock, after two
\* calls that returned new (locked) instances.
C18_Witness ==
    /\ pcall.tmpl.policy = "skip-until-unlock"
    /\ pcall.result = "None"
    /\ pcall.running = <<1, 2>>
    /\ ~pool[1].locked
    /\ pool[2].locked

\* C19: a call of new_workflow() under abort-running that returns has
\* called cancel() once on every running instance and returns a new
\* instance, never None; it raises only for a running instance of another
\* template.
C19_AbortRunning ==
    [][CallOf("abort-running")
        => /\ pcall'.result \in {"new", "ValueError"}
           /\ pcall'.result = "new"
              => /\ ReturnsNew
                 /\ \A i \in RunningSet :
                        /\ pool'[i].cancel_calls = pool[i].cancel_calls + 1
                        /\ pool'[i].must_cancel
                 /\ \A i \in (1..Len(pool)) \ RunningSet : pool'[i] = pool[i]
           /\ pcall'.result = "ValueError"
              => \E i \in RunningSet : pool[i].uid # pcall'.tmpl.uid]_vars

\* C19 witness: a call under abort-running returned a new instance after
\* cancelling two running instances, one with a running task and one
\* without any task.
C19_Witness ==
    /\ pcall.tmpl.policy = "abort-running"
    /\ pcall.result = "new"
    /\ pcall.running = <<1, 2>>
    /\ Len(pool) = 3
    /\ pool[1].cancel_calls = 1 /\ pool[1].tasks # {} /\ pool[1].wstate = "pending"
    /\ pool[2].cancel_calls = 1 /\ pool[2].wstate = "cancelled"

\* C20: for every policy, a call of new_workflow() with a running instance
\* of another template fails, and it has cancelled no instance and created
\* none.
C20_CheckBeforeAction ==
    [][(ncalls' = ncalls + 1 /\ \E i \in RunningSet : pool[i].uid # pcall'.tmpl.uid)
        => (pcall'.result = "ValueError" /\ pool' = pool)]_vars

\* A directed cycle of the graph, self-loops included: a closed walk.
HasCycle(g) ==
    \E k \in 1..Cardinality(DOMAIN g) :
        \E p \in [1..k -> DOMAIN g] :
            /\ \A i \in 1..(k - 1) : p[i + 1] \in g[p[i]]
            /\ p[1] \in g[p[k]]

\* is_valid() of a graph, whatever the order its sets are walked in.
IsValidGraph(g) == \A ord \in Perms(DagNodes) : validate(g, ord).exc = "none"

\* The four calls that edit a DAG.
EditOps == {"add_node", "delete_node", "add_edge", "delete_edge"}

\* C21: a call add_edge(u, v) that fails (a node is missing, the edge closes
\* a cycle, or it leaves no root) leaves the graph as it was before the call,
\* and is_valid() answers after the call what it answered before.
C21_FailedAddEdgeUnchanged ==
    (dcall.op = "add_edge" /\ dcall.exc # "none")
        => /\ dag = dcall.before
           /\ IsValidGraph(dag) = IsValidGraph(dcall.before)

\* add_edge(u, v) failed on validation, the new edge closing a cycle in a
\* graph that has a root and other edges.
C21_Witness ==
    /\ dcall.op = "add_edge"
    /\ dcall.exc = "DAGValidationError"
    /\ dcall.u # dcall.v
    /\ root_nodes(dcall.checked) # {}
    /\ edges(dag) # {}

\* C22 as stated: after any sequence of add_node, delete_node, add_edge and
\* delete_edge calls on a new DAG, failed calls included, every successor is
\* a key of the graph, there is no cycle, and there is at least one root.
C22_AlwaysValidDag ==
    dcall.op \in EditOps
        => /\ \A n \in DOMAIN dag : dag[n] \subseteq DOMAIN dag
           /\ ~HasCycle(dag)
           /\ root_nodes(dag) # {}

\* C22 amended: the same, a root existing whenever the graph has a node.
C22_ValidUnlessEmpty ==
    dcall.op \in EditOps
        => /\ \A n \in DOMAIN dag : dag[n] \subseteq DOMAIN dag
           /\ ~HasCycle(dag)
           /\ (DOMAIN dag # {} => root_nodes(dag) # {})

\* delete_node() removed a node together with edges, and edges are left.
C22_Witness ==
    /\ dcall.op = "delete_node"
    /\ dcall.exc = "none"
    /\ edges(dag) # {}
    /\ Cardinality(edges(dcall.before)) > Cardinality(edges(dag))

\* C23: every template WorkflowTemplate.from_dict() accepts has exactly one
\* root task and no cycle; a dictionary whose graph has no root or several
\* roots is rejected.
C23_AcceptedHasSingleRoot ==
    (dcall.op = "from_dict" /\ dcall.exc = "none")
        => /\ Cardinality(root_nodes(dag)) = 1
           /\ ~HasCycle(dag)

C24_TerminalPrecedence ==
    [][(wstate = "pending" /\ wstate' # "pending")
        => IF internal_exc' # NoExc
           THEN wstate' = "exception" /\ NbEvents({"workflow-error"})' = 1
           ELSE IF must_cancel'
           THEN wstate' = "cancelled"
           ELSE wstate' = "finished" /\ wresult' = "tasks"]_vars

\* The template successors the callbacks of task t go through: all of them,
\* or the ones set_next_tasks() selected.
SelectedSuccessors(t) ==
    IF updated_next[t] = <<>>
    THEN successors(tmpl.graph, t)
    ELSE successors(tmpl.graph, t) \cap IdSet(updated_next[t][1])

\* The join events the step pushed, as <<predecessor, successor>>.
JoinsNow == {joins'[i] : i \in (Len(joins) + 1)..Len(joins')}

C26_StartedByFinishedPredecessor ==
    /\ [](\A n \in tasks :
              predecessors(tmpl.graph, n) # {}
              => \E p \in predecessors(tmpl.graph, n) :
                     tstate[p] = "finished" /\ p \in done_tasks)
    /\ [][\A n \in StartedNow :
              IF predecessors(tmpl.graph, n) = {}
              THEN runs' = runs + 1
              ELSE \E p \in predecessors(tmpl.graph, n) :
                       CallbacksOf(p) /\ tstate[p] = "finished"]_vars

\* C26 witness: task 2, the only predecessor of task 4, ended on an exception;
\* the other branch ran and the workflow finished without task 4.
C26_Witness ==
    /\ tmpl = TmplTaskTimeout
    /\ tstate[2] = "exception"
    /\ tstate[3] = "finished"
    /\ wstate = "finished"
    /\ 4 \notin tasks

\* The topics under which the sink of task n is registered in the broker.
RegisteredTopics(n) == {r[2] : r \in {q \in registered : q[1] = n}}

\* C27: the sink of a task is registered for exactly the topics of its
\* template when the task starts (the topic None for a template that listens
\* to everything), for no topic once the task is done and its done callbacks
\* have run, and never when the template listens to nothing.
C27_SinkRegistration ==
    /\ [](\A n \in Nodes :
              /\ (n \in DOMAIN tmpl.graph /\ TopicSet(n) = {}) => RegisteredTopics(n) = {}
              /\ n \in done_tasks => RegisteredTopics(n) = {})
    /\ [][\A n \in StartedNow : RegisteredTopics(n)' = TopicSet(n)]_vars

\* C27 witness: in the diamond task 2 (everything) and task 4 (t1 and t2)
\* ran and are done, no unregistration failed, and the broker holds no sink.
C27_Witness ==
    /\ tmpl = TmplDiamond
    /\ {2, 4} \subseteq done_tasks
    /\ "broker-failed" \notin hist
    /\ registered = {}

\* The step runs the done callbacks of task t, and the unregistration of its
\* sink fails.
UnregisterFails(t) ==
    /\ CallbacksOf(t)
    /\ \E topic \in TopicSet(t) : <<t, topic>> \notin registered

\* C28: when the unregistration of the sink of a completed task fails, the
\* failure is recorded as the internal exception, every pending task is asked
\* to cancel, the successors of the task are not started, and the terminal
\* state of the workflow is exception.
C28_UnregisterFailure ==
    /\ []("broker-failed" \in hist
              => /\ internal_exc # NoExc
                 /\ Terminal => wstate = "exception")
    /\ [][\A t \in Nodes :
              UnregisterFails(t)
              => /\ internal_exc' = UnregisterExc
                 /\ \A n \in tasks : tstate'[n] = "pending" => n \in cancelReq'
                 /\ StartedNow = {}
                 /\ JoinsNow = {}]_vars

\* How many join events the step pushed from task t to task n.
NbJoinsNow(t, n) ==
    Cardinality({i \in (Len(joins) + 1)..Len(joins') : joins'[i] = <<t, n>>})

\* C30: the callbacks of a task that ended with a result deliver at most one
\* event to each successor, whatever list the task gave to set_next_tasks():
\* the successor is created with the result as its event or is pushed one
\* join event, never both and never two join events.
C30_AtMostOneEvent ==
    [][\A t \in Nodes :
          (CallbacksOf(t) /\ tstate[t] = "finished")
          => \A n \in Nodes :
                 (IF n \in StartedNow THEN 1 ELSE 0) + NbJoinsNow(t, n) <= 1]_vars

\* C31: once the workflow is terminal no task is created for it, whatever
\* the order of run(), cancel() and the completions of tasks: the set of the
\* started tasks never changes again.
C31_NoTaskAfterTerminal ==
    [][Terminal => tasks' = tasks]_vars

====
